---- MODULE Spec2Model ----
(***************************************************************************)
(* A model of the outfit model OutfitX (task dispatch, the CP and CIR      *)
(* forward paths, precompute_embeddings), of the sequence padder and mask  *)
(* builder kept in the second half of src/src/models/outfit_x.py, and of   *)
(* FillInTheBlankTrainer (load_embeddings, hook_after_setup, test).        *)
(*                                                                         *)
(* Tensors are modelled by their structure: a batch is a sequence of       *)
(* examples, an example a sequence of positions, a position an abstract    *)
(* vector.  Learned weights are opaque values; what a layer computes is    *)
(* the record of everything its result depends on.                         *)
(***************************************************************************)
EXTENDS Integers, Sequences, FiniteSets, TLC

\* ------------------------------------------------------------------ bounds
\* Longest outfit (L) of a batch handed to a forward path.
MaxLen == 2
\* Most examples (B) of a batch handed to a forward path; the examples of a
\* batch are independent rows of every tensor.
MaxBatch == 1
\* Number of stacked encoder layers (cfg.transformer.n_layers).
n_layers == 2

\* Python's None where a tensor or a result is optional; no exception; no task.
None == <<>>
NoError == "NoError"
NoTask == "NoTask"
NoCheckpoint == "NoCheckpoint"

\* Precomputed item embeddings (d_embed), target text embeddings (d_embed // 2),
\* raw (image, text) items, and the values a parameter tensor can hold.
EmbVals == {[emb |-> "e1"], [emb |-> "e2"]}
TextVals == {"t1", "t2"}
RawVals == {"r1", "r2"}
WeightVals == {"w0", "w1"}

\* The learned parameters of OutfitX.
ParamNames == {"item_encoder", "transformer_encoder", "outfit_token", "cp_ffn", "cir_ffn", "target_item_image_emb"}

\* The four task tags of OutfitX.Tasks, and a tag with no handler (the
\* FashionItem entry of the table is commented out).
Tasks == {"OutfitCompatibilityPredictionTask", "OutfitComplementaryItemRetrievalTask", "OutfitFillInTheBlankTask", "OutfitPrecomputeEmbeddingTask"}

UnregisteredTasks == {"FashionItem"}

\* OutfitX: the learned parameters, the train/eval switch, and the forward
\* call in progress (pc, call).
VARIABLES params, training, pc, call
\* The padder: its configuration and the padding call in progress.
VARIABLES cfg, ppc, padded
\* load_embeddings: the call in progress.
VARIABLES lpc, loaded
\* FillInTheBlankTrainer: construction arguments, position in the run, the
\* exception that ended it, the checkpoint loaded, the embedding map of the test
\* dataset, and the test loop's counters.
VARIABLES run_mode, world_size, tpc, trainer_raised, ckpt_loaded, item_embeddings, batches_left, processed, total, correct, metrics

\* The widths OutfitX.__init__ builds the CIR head from (self.item_encoder.d_embed,
\* self.cfg.d_embed), and the CIR call in progress, as tensor shapes.
VARIABLES item_encoder_d_embed, cfg_d_embed, spc, shaped
\* The threads that call the model concurrently: per thread, the call in progress.
VARIABLES threads

modelVars == <<params, training, pc, call>>
padVars == <<cfg, ppc, padded>>
loadVars == <<lpc, loaded>>
trainerVars == <<run_mode, world_size, tpc, trainer_raised, ckpt_loaded, item_embeddings, batches_left, processed, total, correct, metrics>>
shapeVars == <<item_encoder_d_embed, cfg_d_embed, spc, shaped>>
threadVars == <<threads>>
vars == <<modelVars, padVars, loadVars, trainerVars, shapeVars, threadVars>>

\* ------------------------------------------------------- OutfitX: operators

\* The table as it stood before the fill-in-the-blank and precompute entries.
forward_mutNoFitb == [t \in {"OutfitCompatibilityPredictionTask", "OutfitComplementaryItemRetrievalTask"} |-> IF t = "OutfitCompatibilityPredictionTask" THEN "_cp_forward" ELSE "_cir_forward"]

\* self.forward_, the task table: task tag -> bound method.
forward_ == [t \in Tasks |-> CASE t = "OutfitCompatibilityPredictionTask" -> "_cp_forward" [] t = "OutfitComplementaryItemRetrievalTask" -> "_cir_forward" [] t = "OutfitFillInTheBlankTask" -> "_cir_forward" [] OTHER -> "precompute_embeddings"]

\* self.item_encoder(images, texts): one embedding per raw item of one example.
ItemEncoder(p, raws) == [i \in DOMAIN raws |-> [enc |-> p.item_encoder, raw |-> raws[i]]]

\* Attention that reads every key position, whatever the key padding mask.
UnmaskedMutAll(mask) == DOMAIN mask

\* Key positions attention may read: those the key padding mask leaves False.
Unmasked(mask) == {j \in DOMAIN mask : ~mask[j]}

\* One nn.TransformerEncoderLayer on one example: the new state of position i
\* is a function of the layer weights, the dropout draw, the state of i
\* (query, residual) and the states of the unmasked positions (keys, values).
EncoderLayer(w, drop, x, mask) == [i \in DOMAIN x |-> [w |-> w, drop |-> drop, q |-> x[i], kv |-> [j \in Unmasked(mask) |-> x[j]]]]

\* self.transformer_encoder(src, src_key_padding_mask): n stacked layers.
RECURSIVE TransformerEncoder(_, _, _, _, _)
TransformerEncoder(w, drop, x, mask, n) == IF n = 0 THEN x ELSE TransformerEncoder(w, drop, EncoderLayer(w, drop, x, mask), mask, n - 1)

\* self.cp_ffn: Dropout then Linear(d_embed, 1).
cp_ffn(p, drop, state) == [head |-> "cp_ffn", w |-> p.cp_ffn, drop |-> drop, x |-> state]

\* self.cir_ffn: Linear(d_embed, cfg.d_embed, bias=False).
cir_ffn(p, state) == [head |-> "cir_ffn", w |-> p.cir_ffn, x |-> state]

\* OutfitX.precompute_embeddings(images, texts): embeddings[:, 0, :].
precompute_embeddings(p, drop, args) ==
  LET embeddings == [b \in DOMAIN args.items |-> ItemEncoder(p, args.items[b])]
      item_embedding_list == [b \in DOMAIN embeddings |-> embeddings[b][1]]
  IN  [path |-> "precompute_embeddings", src |-> None, mask |-> None, pooled |-> None, out |-> item_embedding_list]

\* OutfitX._cp_forward(outfit_embedding, outfit_mask, encoder_input_dict).
_cp_forward(p, drop, args) ==
  LET outfit_embedding == IF args.encoder_input_dict # None THEN [b \in DOMAIN args.encoder_input_dict |-> ItemEncoder(p, args.encoder_input_dict[b])] ELSE args.outfit_embedding
      B == Len(outfit_embedding)
      transformer_inputs == [b \in 1..B |-> <<[token |-> p.outfit_token]>> \o outfit_embedding[b]]
      mask == [b \in 1..B |-> <<FALSE>> \o args.outfit_mask[b]]
      transformer_outputs == [b \in 1..B |-> TransformerEncoder(p.transformer_encoder, drop, transformer_inputs[b], mask[b], n_layers)]
      outfit_token_states == [b \in 1..B |-> transformer_outputs[b][1]]
      scores == [b \in 1..B |-> cp_ffn(p, drop, outfit_token_states[b])]
  IN  [path |-> "_cp_forward", src |-> transformer_inputs, mask |-> mask, pooled |-> outfit_token_states, out |-> scores]

\* _cir_forward that puts the prefix of the mask behind the caller's mask.
_cir_forwardMutMaskAppend(p, drop, args) ==
  LET B == Len(args.outfit_embedding)
      target_items_embedding == [b \in 1..B |-> [image |-> p.target_item_image_emb, text |-> args.target_item_text_embedding[b]]]
      embeddings == [b \in 1..B |-> <<target_items_embedding[b]>> \o args.outfit_embedding[b]]
      mask == [b \in 1..B |-> args.outfit_mask[b] \o <<FALSE>>]
      transformer_outputs == [b \in 1..B |-> TransformerEncoder(p.transformer_encoder, drop, embeddings[b], mask[b], n_layers)]
      target_item_token_states == [b \in 1..B |-> transformer_outputs[b][1]]
      target_item_embeddings == [b \in 1..B |-> cir_ffn(p, target_item_token_states[b])]
  IN  [path |-> "_cir_forward", src |-> embeddings, mask |-> mask, pooled |-> target_item_token_states, out |-> target_item_embeddings]

\* OutfitX._cir_forward(outfit_embedding, outfit_mask, target_item_text_embedding).
_cir_forward(p, drop, args) ==
  LET B == Len(args.outfit_embedding)
      target_items_embedding == [b \in 1..B |-> [image |-> p.target_item_image_emb, text |-> args.target_item_text_embedding[b]]]
      embeddings == [b \in 1..B |-> <<target_items_embedding[b]>> \o args.outfit_embedding[b]]
      mask == [b \in 1..B |-> <<FALSE>> \o args.outfit_mask[b]]
      transformer_outputs == [b \in 1..B |-> TransformerEncoder(p.transformer_encoder, drop, embeddings[b], mask[b], n_layers)]
      target_item_token_states == [b \in 1..B |-> transformer_outputs[b][1]]
      target_item_embeddings == [b \in 1..B |-> cir_ffn(p, target_item_token_states[b])]
  IN  [path |-> "_cir_forward", src |-> embeddings, mask |-> mask, pooled |-> target_item_token_states, out |-> target_item_embeddings]

\* The bound method a table entry names, applied to the call's arguments.
CallPath(name, p, drop, args) ==
  CASE name = "_cp_forward" -> _cp_forward(p, drop, args)
    [] name = "_cir_forward" -> _cir_forward(p, drop, args)
    [] name = "precompute_embeddings" -> precompute_embeddings(p, drop, args)

\* forward with a default handler instead of the table lookup's KeyError.
forwardMutDefault(p, drop, task, args) ==
  LET r == CallPath(IF task \in DOMAIN forward_ THEN forward_[task] ELSE "precompute_embeddings", p, drop, args)
  IN  [task |-> task, args |-> args, ran |-> <<r.path>>, raised |-> NoError, result |-> r]

\* OutfitX.forward(task, *args, **kwargs): _forward = self.forward_[task];
\* return _forward(*args, **kwargs).  A tag missing from the dict raises
\* KeyError at the lookup, before any path is entered.
forward(p, drop, task, args) ==
  IF task \notin DOMAIN forward_
  THEN [task |-> task, args |-> args, ran |-> <<>>, raised |-> "KeyError", result |-> None]
  ELSE LET r == CallPath(forward_[task], p, drop, args)
       IN  [task |-> task, args |-> args, ran |-> <<r.path>>, raised |-> NoError, result |-> r]

\* ---------------------------------------------------------- OutfitX: inputs

\* Batches of B examples of L positions over a value set.
Batch(S, B, L) == [1..B -> [1..L -> S]]

CPArgs == UNION {UNION {[outfit_embedding : Batch(EmbVals, B, L), outfit_mask : Batch(BOOLEAN, B, L), encoder_input_dict : {None}] \cup [outfit_embedding : {None}, outfit_mask : Batch(BOOLEAN, B, L), encoder_input_dict : Batch(RawVals, B, L)] : L \in 0..MaxLen} : B \in 1..MaxBatch}

CIRArgs == UNION {UNION {[outfit_embedding : Batch(EmbVals, B, L), outfit_mask : Batch(BOOLEAN, B, L), target_item_text_embedding : [1..B -> TextVals]] : L \in 0..MaxLen} : B \in 1..MaxBatch}

PrecomputeArgs == UNION {[items : Batch(RawVals, B, 1)] : B \in 1..MaxBatch}

ArgsOf(task) ==
  CASE task = "OutfitCompatibilityPredictionTask" -> CPArgs
    [] task \in {"OutfitComplementaryItemRetrievalTask", "OutfitFillInTheBlankTask"} -> CIRArgs
    [] OTHER -> PrecomputeArgs

\* Dropout draws: none in evaluation mode, one of two random masks in training.
DropDraws(tr) == IF tr THEN {"d1", "d2"} ELSE {"off"}

NoCall == [task |-> NoTask, args |-> None, ran |-> <<>>, raised |-> NoError, result |-> None]

\* ---------------------------------------------------------- OutfitX: actions

\* OutfitX.__init__: parameters drawn by torch.randn; nn.Module starts in
\* training mode.
InitModel ==
  /\ params \in {[n \in ParamNames |-> w] : w \in WeightVals}
  /\ training = TRUE
  /\ pc = "idle"
  /\ call = NoCall

\* model(task, ...) with a tag of the table.
Forward ==
  /\ pc = "idle"
  /\ \E task \in Tasks : \E args \in ArgsOf(task) : \E drop \in DropDraws(training) :
       call' = forward(params, drop, task, args)
  /\ pc' = "returned"
  /\ UNCHANGED <<params, training, padVars, loadVars, trainerVars>>
  /\ UNCHANGED <<shapeVars, threadVars>>

\* model(task, ...) with a tag that has no entry in the table.
ForwardUnregistered ==
  /\ pc = "idle"
  /\ \E task \in UnregisteredTasks : \E args \in PrecomputeArgs : \E drop \in DropDraws(training) :
       call' = forward(params, drop, task, args)
  /\ pc' = "returned"
  /\ UNCHANGED <<params, training, padVars, loadVars, trainerVars>>
  /\ UNCHANGED <<shapeVars, threadVars>>

\* The caller takes the result (or the exception) and the call is over.
Return ==
  /\ pc = "returned"
  /\ pc' = "idle"
  /\ call' = NoCall
  /\ UNCHANGED <<params, training, padVars, loadVars, trainerVars>>
  /\ UNCHANGED <<shapeVars, threadVars>>

\* self.model.eval(): evaluation mode, dropout disabled.
Eval ==
  /\ pc = "idle"
  /\ training
  /\ training' = FALSE
  /\ UNCHANGED <<params, pc, call, padVars, loadVars, trainerVars>>
  /\ UNCHANGED <<shapeVars, threadVars>>

NextModel == Forward \/ ForwardUnregistered \/ Return \/ Eval

\* ------------------------------------------------- sequence padder: bounds
\* Longest item sequence of a batch given to the padder.
MaxSeqLen == 3
\* Largest configured cfg.max_length.
MaxCfgLen == 2
\* Most sequences of a batch given to the padder.
MaxPadBatch == 2

\* Fashion items of a sequence; the fill values of the three element kinds.
ItemVals == {"i1", "i2"}
image_pad == [pad |-> "image_pad"]
text_pad == [pad |-> "text_pad"]
pad_emb == [pad |-> "pad_emb"]

Max(S) == CHOOSE m \in S : \A x \in S : x <= m
Min(S) == CHOOSE m \in S : \A x \in S : m <= x

\* ----------------------------------------------- sequence padder: operators

\* _get_max_length that caps with max() where the code caps with min().
_get_max_lengthMutMax(c, sequences) ==
  IF c.padding = "max_length" THEN c.max_length
  ELSE LET max_length == Max({Len(sequences[b]) : b \in DOMAIN sequences})
       IN  IF c.truncation THEN Max({c.max_length, max_length}) ELSE max_length

\* _get_max_length that ignores the 'max_length' policy when truncation is off.
_get_max_lengthMutNoFixed(c, sequences) ==
  LET max_length == Max({Len(sequences[b]) : b \in DOMAIN sequences})
  IN  IF c.truncation THEN Min({c.max_length, max_length}) ELSE max_length

\* OutfitX._get_max_length(sequences): the target length of the batch.
_get_max_length(c, sequences) ==
  IF c.padding = "max_length" THEN c.max_length
  ELSE LET max_length == Max({Len(sequences[b]) : b \in DOMAIN sequences})
       IN  IF c.truncation THEN Min({c.max_length, max_length}) ELSE max_length

item_length(seq, max_length) == Min({Len(seq), max_length})

pad_length(seq, max_length) == max_length - item_length(seq, max_length)

\* n copies of a value: [pad_value] * n, pad_value.expand(n, -1), [0] * n.
Repeat(v, n) == [i \in 1..n |-> v]

\* _pad_sequences that pads on the left.
_pad_sequencesMutLeft(sequences, pad_value, max_length) == [b \in DOMAIN sequences |-> Repeat(pad_value, pad_length(sequences[b], max_length)) \o SubSeq(sequences[b], 1, item_length(sequences[b], max_length))]

\* _pad_sequences that keeps the trailing items of an over-long sequence.
_pad_sequencesMutTail(sequences, pad_value, max_length) == [b \in DOMAIN sequences |-> SubSeq(sequences[b], Len(sequences[b]) - item_length(sequences[b], max_length) + 1, Len(sequences[b])) \o Repeat(pad_value, pad_length(sequences[b], max_length))]

\* OutfitX._pad_sequences(sequences, pad_value, max_length): seq[:item_length]
\* followed by pad_length copies of pad_value.
_pad_sequences(sequences, pad_value, max_length) == [b \in DOMAIN sequences |-> SubSeq(sequences[b], 1, item_length(sequences[b], max_length)) \o Repeat(pad_value, pad_length(sequences[b], max_length))]

\* The attributes of a FashionItem.
ItemImage(item) == [image |-> item]
ItemCategory(item) == [category |-> item]
ItemEmbedding(item) == [emb |-> item]

\* self.item_encoder(images, texts) on one padded example.
ItemEncoderPairs(p, images, texts) == [i \in DOMAIN images |-> [enc |-> p.item_encoder, image |-> images[i], text |-> texts[i]]]

\* The mask of _get_embeddings_and_padding_masks:
\* [0] * item_length(outfit) + [1] * pad_length(outfit) as booleans.
PaddingMask(sequences, max_length) == [b \in DOMAIN sequences |-> Repeat(FALSE, item_length(sequences[b], max_length)) \o Repeat(TRUE, pad_length(sequences[b], max_length))]

\* OutfitX._get_embeddings_and_padding_masks(sequences, use_precomputed_embedding).
\* No branch of it, of _get_max_length or of _pad_sequences raises.
_get_embeddings_and_padding_masks(p, c, sequences, use_precomputed_embedding) ==
  LET max_length == _get_max_length(c, sequences)
      attr(f(_)) == [b \in DOMAIN sequences |-> [i \in DOMAIN sequences[b] |-> f(sequences[b][i])]]
      images == _pad_sequences(attr(ItemImage), image_pad, max_length)
      texts == _pad_sequences(attr(ItemCategory), text_pad, max_length)
      embeddings == IF use_precomputed_embedding
                    THEN _pad_sequences(attr(ItemEmbedding), pad_emb, max_length)
                    ELSE [b \in DOMAIN sequences |-> ItemEncoderPairs(p, images[b], texts[b])]
      mask == PaddingMask(sequences, max_length)
  IN  [sequences |-> sequences, use_precomputed_embedding |-> use_precomputed_embedding, max_length |-> max_length, images |-> IF use_precomputed_embedding THEN None ELSE images, texts |-> IF use_precomputed_embedding THEN None ELSE texts, embeddings |-> embeddings, mask |-> mask, raised |-> NoError]

\* ------------------------------------------------- sequence padder: actions

SeqsUpTo(S, n) == UNION {[1..k -> S] : k \in 1..n}

PadderBatches == UNION {[1..B -> SeqsUpTo(ItemVals, MaxSeqLen)] : B \in 1..MaxPadBatch}

NoPadded == [sequences |-> None, use_precomputed_embedding |-> FALSE, max_length |-> 0, images |-> None, texts |-> None, embeddings |-> None, mask |-> None, raised |-> NoError]

\* OutfitXConfig: the padding policy, the truncation switch and max_length.
InitPadder ==
  /\ cfg \in [padding : {"max_length", "longest"}, truncation : BOOLEAN, max_length : 1..MaxCfgLen]
  /\ ppc = "idle"
  /\ padded = NoPadded

\* A batch of outfits is padded and its mask built.
GetEmbeddingsAndPaddingMasks ==
  /\ ppc = "idle"
  /\ \E sequences \in PadderBatches : \E use_precomputed_embedding \in BOOLEAN :
       padded' = _get_embeddings_and_padding_masks(params, cfg, sequences, use_precomputed_embedding)
  /\ ppc' = "returned"
  /\ UNCHANGED <<cfg, modelVars, loadVars, trainerVars>>
  /\ UNCHANGED <<shapeVars, threadVars>>

\* The caller takes the padded batch and the mask.
PadReturn ==
  /\ ppc = "returned"
  /\ ppc' = "idle"
  /\ padded' = NoPadded
  /\ UNCHANGED <<cfg, modelVars, loadVars, trainerVars>>
  /\ UNCHANGED <<shapeVars, threadVars>>

NextPadder == GetEmbeddingsAndPaddingMasks \/ PadReturn

\* ------------------------------------------------- load_embeddings: bounds
\* Shard files embedding_subset_{rank}.pkl a directory can hold (ranks 0..MaxShards-1).
MaxShards == 2
\* Rows (items) of one shard file.
MaxShardRows == 2

IdVals == {"a", "b"}

\* The default of load_embeddings' embed_file_prefix, and the prefix
\* setup_test_dataloader builds from the model name.
DefaultPrefix == "embedding_subset_"
TrainerPrefix == "all-MiniLM-L6-v2_embedding_subset_"

\* A file name is <stem><rank>.<ext>.
ShardNames == {[stem |-> TrainerPrefix, rank |-> r, ext |-> "pkl"] : r \in 0..(MaxShards - 1)}
LegacyName == [stem |-> DefaultPrefix, rank |-> 0, ext |-> "pkl"]
TmpName == [stem |-> TrainerPrefix, rank |-> 0, ext |-> "tmp"]

\* A shard file's pickle: the ID list and the parallel embedding matrix, whose
\* row j is named by the file and j.
ShardData(name, ids) == [ids |-> ids, embeddings |-> [j \in 1..Len(ids) |-> [stem |-> name.stem, rank |-> name.rank, row |-> j]]]

IdLists == UNION {[1..k -> IdVals] : k \in 0..MaxShardRows}

\* The directories: any subset of the shard files with any ID lists, with or
\* without a file of the other prefix and a file of another extension.
Dirs == UNION {{[f \in S \cup X |-> IF f \in S THEN ShardData(f, ids[f]) ELSE ShardData(f, <<"a">>)] : ids \in [S -> IdLists], X \in SUBSET {LegacyName, TmpName}} : S \in SUBSET ShardNames}

\* ---------------------------------------------- load_embeddings: operators

\* embedding_dir.glob(f"{prefix}*.pkl"): the files the pattern matches, in no order.
Glob(dir, prefix) == {f \in DOMAIN dir : f.stem = prefix /\ f.ext = "pkl"}

\* sorted() that orders the files by descending name.
RECURSIVE SortedMutDescending(_)
SortedMutDescending(S) == IF S = {} THEN <<>> ELSE LET f == CHOOSE x \in S : \A y \in S : y.rank <= x.rank IN <<f>> \o SortedMutDescending(S \ {f})

\* sorted(files): ascending by name (files of one glob differ in the rank).
RECURSIVE Sorted(_)
Sorted(S) == IF S = {} THEN <<>> ELSE LET f == CHOOSE x \in S : \A y \in S : x.rank <= y.rank IN <<f>> \o Sorted(S \ {f})

\* all_ids.extend(data['ids']) over the files, in order.
RECURSIVE ExtendIds(_, _)
ExtendIds(dir, files) == IF files = <<>> THEN <<>> ELSE dir[Head(files)].ids \o ExtendIds(dir, Tail(files))

\* np.concatenate(all_embeddings, axis=0) over the files, in order.
RECURSIVE ConcatEmbeddings(_, _)
ConcatEmbeddings(dir, files) == IF files = <<>> THEN <<>> ELSE dir[Head(files)].embeddings \o ConcatEmbeddings(dir, Tail(files))

\* A dict that keeps the first pair of a repeated key.
DictFromZipMutFirst(all_ids, all_embeddings) ==
  LET n == Min({Len(all_ids), Len(all_embeddings)})
  IN  [id \in {all_ids[k] : k \in 1..n} |-> all_embeddings[Min({k \in 1..n : all_ids[k] = id})]]

\* {item_id: embedding for item_id, embedding in zip(all_ids, all_embeddings)}:
\* zip stops at the shorter list, and a later pair replaces an earlier one
\* with the same key.
DictFromZip(all_ids, all_embeddings) ==
  LET n == Min({Len(all_ids), Len(all_embeddings)})
  IN  [id \in {all_ids[k] : k \in 1..n} |-> all_embeddings[Max({k \in 1..n : all_ids[k] = id})]]

\* load_embeddings without the check for an empty file list.
load_embeddingsMutNoCheck(dir, prefix) ==
  LET files == Sorted(Glob(dir, prefix))
      all_ids == ExtendIds(dir, files)
      all_embeddings == ConcatEmbeddings(dir, files)
  IN  [prefix |-> prefix, dir |-> dir, files_read |-> files, all_ids |-> all_ids, all_embeddings |-> all_embeddings, map |-> DictFromZip(all_ids, all_embeddings), raised |-> NoError]

\* FillInTheBlankTrainer.load_embeddings(embed_file_prefix).
load_embeddings(dir, prefix) ==
  LET files == Sorted(Glob(dir, prefix))
      all_ids == ExtendIds(dir, files)
      all_embeddings == ConcatEmbeddings(dir, files)
  IN  IF files = <<>>
      THEN [prefix |-> prefix, dir |-> dir, files_read |-> <<>>, all_ids |-> <<>>, all_embeddings |-> <<>>, map |-> None, raised |-> "FileNotFoundError"]
      ELSE [prefix |-> prefix, dir |-> dir, files_read |-> files, all_ids |-> all_ids, all_embeddings |-> all_embeddings, map |-> DictFromZip(all_ids, all_embeddings), raised |-> NoError]

\* ------------------------------------------------ load_embeddings: actions

NoLoaded == [prefix |-> None, dir |-> None, files_read |-> <<>>, all_ids |-> <<>>, all_embeddings |-> <<>>, map |-> None, raised |-> NoError]

InitLoader ==
  /\ lpc = "idle"
  /\ loaded = NoLoaded

\* trainer.load_embeddings(prefix) on the directory as it is at the call.
LoadEmbeddings ==
  /\ lpc = "idle"
  /\ \E dir \in Dirs : \E prefix \in {DefaultPrefix, TrainerPrefix} :
       loaded' = load_embeddings(dir, prefix)
  /\ lpc' = "returned"
  /\ UNCHANGED <<modelVars, padVars, trainerVars>>
  /\ UNCHANGED <<shapeVars, threadVars>>

\* The caller takes the map (or the exception).
LoadReturn ==
  /\ lpc = "returned"
  /\ lpc' = "idle"
  /\ loaded' = NoLoaded
  /\ UNCHANGED <<modelVars, padVars, trainerVars>>
  /\ UNCHANGED <<shapeVars, threadVars>>

NextLoader == LoadEmbeddings \/ LoadReturn

\* ------------------------------------------- FillInTheBlankTrainer: bounds
\* Largest number of worker processes (world_size).
MaxWorldSize == 2
\* Largest number of batches the test dataloader yields.
MaxTestBatches == 2

RunModes == {"train-valid", "test", "custom"}

\* The order in which DistributedTrainer drives a run: the constructor, the
\* dataloader setup, hook_after_setup, then the task of the run mode.
RunOrder == <<"new", "constructed", "setup", "ready", "testing", "done">>

PhaseAfter(ph) == RunOrder[(CHOOSE i \in DOMAIN RunOrder : RunOrder[i] = ph) + 1]

\* The parameters a checkpoint file holds (load_checkpoint, only_load_model=True).
Checkpoint(path) == [n \in ParamNames |-> "w1"]

\* The fill-in-the-blank batches the test processor collates.
TestBatchArgs == UNION {[outfit_embedding : Batch(EmbVals, B, 1), outfit_mask : Batch({FALSE}, B, 1), target_item_text_embedding : [1..B -> TextVals]] : B \in 1..MaxBatch}

\* ---------------------------------------- FillInTheBlankTrainer: operators

\* hook_after_setup that loads the checkpoint before it checks the mode.
hook_after_setupMutLate(mode, ws) ==
  IF mode = "train-valid" THEN [raised |-> NoError, ckpt_path |-> "compatibility_prediction/best_AUC"]
  ELSE IF mode = "test" THEN [raised |-> IF ws > 1 THEN "ValueError" ELSE NoError, ckpt_path |-> "complementary_item_retrieval/best_Recall@1"]
  ELSE [raised |-> "ValueError", ckpt_path |-> NoCheckpoint]

\* FillInTheBlankTrainer.hook_after_setup: the exception it raises, if any,
\* and the checkpoint it loads (None when it raises before load_checkpoint).
hook_after_setup(mode, ws) ==
  IF ws > 1 /\ mode = "test" THEN [raised |-> "ValueError", ckpt_path |-> NoCheckpoint]
  ELSE IF mode = "train-valid" THEN [raised |-> NoError, ckpt_path |-> "compatibility_prediction/best_AUC"]
  ELSE IF mode = "test" THEN [raised |-> NoError, ckpt_path |-> "complementary_item_retrieval/best_Recall@1"]
  ELSE [raised |-> "ValueError", ckpt_path |-> NoCheckpoint]

\* ------------------------------------------ FillInTheBlankTrainer: actions

InitTrainer ==
  /\ run_mode \in RunModes
  /\ world_size \in 1..MaxWorldSize
  /\ tpc = "new"
  /\ trainer_raised = NoError
  /\ ckpt_loaded = NoCheckpoint
  /\ item_embeddings = None
  /\ batches_left = 0
  /\ processed = 0
  /\ total = 0
  /\ correct = 0
  /\ metrics = None

\* FillInTheBlankTrainer.__init__: 'train-valid' is not implemented.
TrainerInit ==
  /\ tpc = "new"
  /\ IF run_mode = "train-valid"
     THEN tpc' = "aborted" /\ trainer_raised' = "ValueError"
     ELSE tpc' = PhaseAfter(tpc) /\ UNCHANGED trainer_raised
  /\ UNCHANGED <<run_mode, world_size, ckpt_loaded, item_embeddings, batches_left, processed, total, correct, metrics>>
  /\ UNCHANGED <<modelVars, padVars, loadVars>>
  /\ UNCHANGED <<shapeVars, threadVars>>

\* setup_test_dataloader: load the embedding map, build the dataset and the
\* DataLoader over it.
SetupTestDataloader ==
  /\ tpc = "constructed"
  /\ run_mode = "test"
  /\ \E dir \in Dirs : \E n \in 0..MaxTestBatches :
       LET r == load_embeddings(dir, TrainerPrefix)
       IN  IF r.raised # NoError
           THEN tpc' = "aborted" /\ trainer_raised' = r.raised /\ UNCHANGED <<item_embeddings, batches_left>>
           ELSE tpc' = PhaseAfter(tpc) /\ item_embeddings' = r.map /\ batches_left' = n /\ UNCHANGED trainer_raised
  /\ UNCHANGED <<run_mode, world_size, ckpt_loaded, processed, total, correct, metrics>>
  /\ UNCHANGED <<modelVars, padVars, loadVars>>
  /\ UNCHANGED <<shapeVars, threadVars>>

\* setup_custom_dataloader: pass.
SetupCustomDataloader ==
  /\ tpc = "constructed"
  /\ run_mode = "custom"
  /\ tpc' = PhaseAfter(tpc)
  /\ UNCHANGED <<run_mode, world_size, trainer_raised, ckpt_loaded, item_embeddings, batches_left, processed, total, correct, metrics>>
  /\ UNCHANGED <<modelVars, padVars, loadVars>>
  /\ UNCHANGED <<shapeVars, threadVars>>

\* hook_after_setup: reject a distributed test run, else load the checkpoint
\* of the run mode into the model.
HookAfterSetup ==
  /\ tpc = "setup"
  /\ LET h == hook_after_setup(run_mode, world_size)
     IN  /\ IF h.ckpt_path # NoCheckpoint
            THEN ckpt_loaded' = h.ckpt_path /\ params' = Checkpoint(h.ckpt_path)
            ELSE UNCHANGED <<ckpt_loaded, params>>
         /\ IF h.raised # NoError
            THEN tpc' = "aborted" /\ trainer_raised' = h.raised
            ELSE tpc' = PhaseAfter(tpc) /\ UNCHANGED trainer_raised
  /\ UNCHANGED <<run_mode, world_size, item_embeddings, batches_left, processed, total, correct, metrics>>
  /\ UNCHANGED <<training, pc, call, padVars, loadVars>>
  /\ UNCHANGED <<shapeVars, threadVars>>

\* test(), up to the loop: self.model.eval(); total = 0; correct = 0.
TestBegin ==
  /\ tpc = "ready"
  /\ run_mode = "test"
  /\ training' = FALSE
  /\ total' = 0
  /\ correct' = 0
  /\ tpc' = PhaseAfter(tpc)
  /\ UNCHANGED <<run_mode, world_size, trainer_raised, ckpt_loaded, item_embeddings, batches_left, processed, metrics>>
  /\ UNCHANGED <<params, pc, call, padVars, loadVars>>
  /\ UNCHANGED <<shapeVars, threadVars>>

\* One iteration of test()'s loop: the batch goes through the model, the
\* nearest of the candidates is compared with the answer of each example.
TestBatch ==
  /\ tpc = "testing"
  /\ batches_left > 0
  /\ \E args \in TestBatchArgs :
       LET y == forward(params, "off", "OutfitFillInTheBlankTask", args)
           B == Len(args.outfit_embedding)
       IN  IF y.raised # NoError
           THEN tpc' = "aborted" /\ trainer_raised' = y.raised /\ UNCHANGED <<batches_left, processed, total, correct>>
           ELSE \E hits \in 0..B :
                  /\ processed' = processed + 1
                  /\ total' = total + B
                  /\ correct' = correct + hits
                  /\ batches_left' = batches_left - 1
                  /\ UNCHANGED <<tpc, trainer_raised>>
  /\ UNCHANGED <<run_mode, world_size, ckpt_loaded, item_embeddings, metrics>>
  /\ UNCHANGED <<modelVars, padVars, loadVars>>
  /\ UNCHANGED <<shapeVars, threadVars>>

\* test(), after the loop: 'Accuracy/test' = correct / total (as the pair);
\* an empty dataloader leaves total = 0 and the division raises.
TestEnd ==
  /\ tpc = "testing"
  /\ batches_left = 0
  /\ IF total = 0
     THEN tpc' = "aborted" /\ trainer_raised' = "ZeroDivisionError" /\ UNCHANGED metrics
     ELSE tpc' = PhaseAfter(tpc) /\ metrics' = <<correct, total>> /\ UNCHANGED trainer_raised
  /\ UNCHANGED <<run_mode, world_size, ckpt_loaded, item_embeddings, batches_left, processed, total, correct>>
  /\ UNCHANGED <<modelVars, padVars, loadVars>>
  /\ UNCHANGED <<shapeVars, threadVars>>

NextTrainer == TrainerInit \/ SetupTestDataloader \/ SetupCustomDataloader \/ HookAfterSetup \/ TestBegin \/ TestBatch \/ TestEnd

\* ------------------------------------------------- tensor shapes: bounds
\* Most examples (B) and longest outfit (L) of a batch whose shape is followed.
MaxShapeBatch == 2
MaxShapeLen == 8
\* Largest width of a vector: of item_encoder.d_embed, of cfg.d_embed, of the
\* embeddings and of the text embeddings a caller passes.
MaxDim == 4

\* ---------------------------------------------- tensor shapes: operators
\* A tensor is followed by its shape, a tuple of sizes; None stands for the
\* RuntimeError torch raises on operands whose sizes do not fit.

\* torch.cat([a, b], dim): the operands must agree in every other dimension.
Cat(a, b, dim) == IF a = None \/ b = None THEN None ELSE IF Len(a) # Len(b) \/ (\E i \in DOMAIN a : i # dim /\ a[i] # b[i]) THEN None ELSE [i \in DOMAIN a |-> IF i = dim THEN a[i] + b[i] ELSE a[i]]

\* x.unsqueeze(1) of a matrix: (B, n) -> (B, 1, n).
Unsqueeze1(x) == IF x = None THEN None ELSE <<x[1], 1, x[2]>>

\* nn.Linear(in_features, out_features) applied to x: the last size of x must
\* be in_features and becomes out_features.
Linear(in_features, out_features, x) == IF x = None THEN None ELSE IF x[Len(x)] # in_features THEN None ELSE [i \in DOMAIN x |-> IF i = Len(x) THEN out_features ELSE x[i]]

\* self.transformer_encoder(src, src_key_padding_mask) with d_model: src is
\* (B, S, d_model) and the mask (B, S); the output has the shape of src.
TransformerEncoderShape(d_model, src, mask) == IF src = None \/ mask = None THEN None ELSE IF src[3] # d_model \/ mask # <<src[1], src[2]>> THEN None ELSE src

\* x[:, 0, :] of a (B, S, d) tensor.
Position0(x) == IF x = None THEN None ELSE <<x[1], x[3]>>

\* A CIR head whose output width is the item encoder's.
cir_ffnShapeMutItemWidth(ie_d_embed, c_d_embed, x) == Linear(ie_d_embed, ie_d_embed, x)

\* self.cir_ffn = nn.Sequential(nn.Linear(self.item_encoder.d_embed, self.cfg.d_embed, bias=False)).
cir_ffnShape(ie_d_embed, c_d_embed, x) == Linear(ie_d_embed, c_d_embed, x)

\* OutfitX._cir_forward on the shapes of its arguments: the shape of
\* target_item_embeddings, or the RuntimeError of the first operation whose
\* operands do not fit.
_cir_forwardShape(ie_d_embed, c_d_embed, args) ==
  LET B == args.outfit_embedding[1]
      target_items_image_embedding == <<B, ie_d_embed \div 2>>
      target_items_embedding == Unsqueeze1(Cat(target_items_image_embedding, args.target_item_text_embedding, 2))
      embeddings == Cat(target_items_embedding, args.outfit_embedding, 2)
      prefix_mask == <<B, 1>>
      mask == Cat(prefix_mask, args.outfit_mask, 2)
      transformer_outputs == TransformerEncoderShape(ie_d_embed, embeddings, mask)
      target_item_token_states == Position0(transformer_outputs)
      target_item_embeddings == cir_ffnShape(ie_d_embed, c_d_embed, target_item_token_states)
  IN  [args |-> args, raised |-> IF target_item_embeddings = None THEN "RuntimeError" ELSE NoError, out |-> target_item_embeddings]

\* ------------------------------------------------ tensor shapes: actions

\* The shapes of the arguments of a CIR call: B outfits of L embeddings of
\* width d, their mask, and B text embeddings of width t.
ShapeArgs == {[outfit_embedding |-> <<B, L, d>>, outfit_mask |-> <<B, L>>, target_item_text_embedding |-> <<B, t>>] : B \in 1..MaxShapeBatch, L \in 0..MaxShapeLen, d \in 1..MaxDim, t \in 1..MaxDim}

NoShaped == [args |-> None, raised |-> NoError, out |-> None]

\* OutfitX.__init__: the two widths come from the configuration, the item
\* encoder's from cfg.item_encoder and the CIR output's from cfg.d_embed.
InitShape ==
  /\ item_encoder_d_embed \in 1..MaxDim
  /\ cfg_d_embed \in 1..MaxDim
  /\ spc = "idle"
  /\ shaped = NoShaped

\* model(OutfitComplementaryItemRetrievalTask, ...) on tensors of some shape.
CirForwardShape ==
  /\ spc = "idle"
  /\ \E args \in ShapeArgs : shaped' = _cir_forwardShape(item_encoder_d_embed, cfg_d_embed, args)
  /\ spc' = "returned"
  /\ UNCHANGED <<item_encoder_d_embed, cfg_d_embed, modelVars, padVars, loadVars, trainerVars, threadVars>>

\* The caller takes the output (or the exception).
ShapeReturn ==
  /\ spc = "returned"
  /\ spc' = "idle"
  /\ shaped' = NoShaped
  /\ UNCHANGED <<item_encoder_d_embed, cfg_d_embed, modelVars, padVars, loadVars, trainerVars, threadVars>>

NextShape == CirForwardShape \/ ShapeReturn

\* ------------------------------------------------ concurrent calls: bounds
\* Threads that call the one model at the same time.
MaxThreads == 2

\* --------------------------------------------- concurrent calls: operators

\* The value a thread's view of a parameter holds before the thread read it.
Unread == "unread"

\* The parameters a forward path reads, in the order of its statements.
Reads(task, args) ==
  CASE task = "OutfitCompatibilityPredictionTask" -> (IF args.encoder_input_dict # None THEN <<"item_encoder">> ELSE <<>>) \o <<"outfit_token", "transformer_encoder", "cp_ffn">>
    [] task \in {"OutfitComplementaryItemRetrievalTask", "OutfitFillInTheBlankTask"} -> <<"target_item_image_emb", "transformer_encoder", "cir_ffn">>
    [] OTHER -> <<"item_encoder">>

\* A forward path that keeps a value it computed in an attribute of the model.
WrittenByForwardMutCache(p, name) == [p EXCEPT !.outfit_token = "w1"]

\* The model's parameters after a statement of a forward path that uses the
\* parameter name: precompute_embeddings, _cp_forward and _cir_forward assign
\* to local names only, never to an attribute of self, and in evaluation mode
\* no submodule updates a buffer.
WrittenByForward(p, name) == p

\* The batch thread t passes: one outfit of one item, its own content.
ThreadEmb(t) == [emb |-> IF t % 2 = 1 THEN "e1" ELSE "e2"]
ThreadRaw(t) == IF t % 2 = 1 THEN "r1" ELSE "r2"
ThreadText(t) == IF t % 2 = 1 THEN "t1" ELSE "t2"

ThreadArgs(t, task) ==
  CASE task = "OutfitCompatibilityPredictionTask" -> {[outfit_embedding |-> <<<<ThreadEmb(t)>>>>, outfit_mask |-> <<<<FALSE>>>>, encoder_input_dict |-> None], [outfit_embedding |-> None, outfit_mask |-> <<<<FALSE>>>>, encoder_input_dict |-> <<<<ThreadRaw(t)>>>>]}
    [] task \in {"OutfitComplementaryItemRetrievalTask", "OutfitFillInTheBlankTask"} -> {[outfit_embedding |-> <<<<ThreadEmb(t)>>>>, outfit_mask |-> <<<<FALSE>>>>, target_item_text_embedding |-> <<ThreadText(t)>>]}
    [] OTHER -> {[items |-> <<<<ThreadRaw(t)>>>>]}

IdleThread == [pc |-> "idle", task |-> NoTask, args |-> None, todo |-> <<>>, view |-> None, start |-> None, result |-> None]

\* ----------------------------------------------- concurrent calls: actions

InitThreads == threads = [t \in 1..MaxThreads |-> IdleThread]

\* Thread t calls model(task, ...): nothing is read yet; start remembers the
\* parameters as they are at the call.
ThreadCall(t) ==
  /\ threads[t].pc = "idle"
  /\ ~training
  /\ \E task \in Tasks : \E args \in ThreadArgs(t, task) :
       threads' = [threads EXCEPT ![t] = [pc |-> "running", task |-> task, args |-> args, todo |-> Reads(task, args), view |-> [n \in ParamNames |-> Unread], start |-> params, result |-> None]]
  /\ UNCHANGED <<modelVars, padVars, loadVars, trainerVars, shapeVars>>

\* Thread t runs the next statement of its path: the statement reads one
\* parameter, as it is now, and writes what the path writes.
ThreadRead(t) ==
  /\ threads[t].pc = "running"
  /\ threads[t].todo # <<>>
  /\ LET name == Head(threads[t].todo)
     IN  /\ threads' = [threads EXCEPT ![t].view = [@ EXCEPT ![name] = params[name]], ![t].todo = Tail(@)]
         /\ params' = WrittenByForward(params, name)
  /\ UNCHANGED <<training, pc, call, padVars, loadVars, trainerVars, shapeVars>>

\* Thread t's path returns: its output is the path's function of the
\* parameter values the thread read.
ThreadFinish(t) ==
  /\ threads[t].pc = "running"
  /\ threads[t].todo = <<>>
  /\ threads' = [threads EXCEPT ![t].pc = "returned", ![t].result = forward(threads[t].view, "off", threads[t].task, threads[t].args)]
  /\ UNCHANGED <<modelVars, padVars, loadVars, trainerVars, shapeVars>>

\* The caller of thread t takes the output.
ThreadReturn(t) ==
  /\ threads[t].pc = "returned"
  /\ threads' = [threads EXCEPT ![t] = IdleThread]
  /\ UNCHANGED <<modelVars, padVars, loadVars, trainerVars, shapeVars>>

NextThreads == \E t \in 1..MaxThreads : ThreadCall(t) \/ ThreadRead(t) \/ ThreadFinish(t) \/ ThreadReturn(t)

\* ---------------------------------------------------------- specifications

\* A component no action of a specification touches rests in one state.
RestModel == InitModel /\ params = [n \in ParamNames |-> "w0"]
RestPadder == InitPadder /\ cfg = [padding |-> "longest", truncation |-> TRUE, max_length |-> MaxCfgLen]
RestTrainer == InitTrainer /\ run_mode = "test" /\ world_size = 1
RestShape == InitShape /\ item_encoder_d_embed = MaxDim /\ cfg_d_embed = MaxDim

\* OutfitX alone: forward calls on a constructed model.
InitM == RestModel /\ RestPadder /\ InitLoader /\ RestTrainer /\ RestShape /\ InitThreads
SpecModel == InitM /\ [][NextModel]_vars

\* The padder alone, under every configuration.
InitP == RestModel /\ InitPadder /\ InitLoader /\ RestTrainer /\ RestShape /\ InitThreads
SpecPadder == InitP /\ [][NextPadder]_vars

\* load_embeddings alone, on every directory.
InitL == RestModel /\ RestPadder /\ InitLoader /\ RestTrainer /\ RestShape /\ InitThreads
SpecLoader == InitL /\ [][NextLoader]_vars

\* One run of the trainer, for every run mode and world size.
InitT == InitModel /\ RestPadder /\ InitLoader /\ InitTrainer /\ RestShape /\ InitThreads
SpecTrainer == InitT /\ [][NextTrainer]_vars

\* The CIR path on tensor shapes, for every pair of configured widths.
InitS == RestModel /\ RestPadder /\ InitLoader /\ RestTrainer /\ InitShape /\ InitThreads
SpecShape == InitS /\ [][NextShape]_vars

\* A constructed model after model.eval(): fixed weights, dropout disabled.
EvalModel ==
  /\ params \in {[n \in ParamNames |-> w] : w \in WeightVals}
  /\ training = FALSE
  /\ pc = "idle"
  /\ call = NoCall

\* Concurrent forward calls on one model in evaluation mode.
InitC == EvalModel /\ RestPadder /\ InitLoader /\ RestTrainer /\ RestShape /\ InitThreads
SpecThreads == InitC /\ [][NextThreads]_vars

\* ------------------------------------------------------------ claims: OutfitX

\* The embeddings of example b a CP or CIR call works on: the encoder's output
\* when the caller passes encoder_input_dict, else the outfit_embedding argument.
GivenEmbedding(c, b) == IF c.ran = <<"_cp_forward">> /\ c.args.encoder_input_dict # None THEN ItemEncoder(params, c.args.encoder_input_dict[b]) ELSE c.args.outfit_embedding[b]

\* C1: a forward call with one of the four task tags runs exactly one forward
\* path and it is the registered one: CP -> _cp_forward, CIR -> _cir_forward,
\* FillInTheBlank -> the same _cir_forward, Precompute -> precompute_embeddings;
\* the result of the call is what that path computes on the arguments.
C1_DispatchRunsRegisteredPath ==
  (pc = "returned" /\ call.task \in Tasks) =>
    /\ call.raised = NoError
    /\ Len(call.ran) = 1
    /\ call.task = "OutfitCompatibilityPredictionTask" => call.ran[1] = "_cp_forward"
    /\ call.task = "OutfitComplementaryItemRetrievalTask" => call.ran[1] = "_cir_forward"
    /\ call.task = "OutfitFillInTheBlankTask" => call.ran[1] = "_cir_forward"
    /\ call.task = "OutfitPrecomputeEmbeddingTask" => call.ran[1] = "precompute_embeddings"
    /\ call.result.path = call.ran[1]
    /\ call.task \in {"OutfitComplementaryItemRetrievalTask", "OutfitFillInTheBlankTask"} =>
         \E drop \in DropDraws(training) : call.result = _cir_forward(params, drop, call.args)

\* C1 witness: a fill-in-the-blank call has returned from _cir_forward.
C1_Witness == pc = "returned" /\ call.task = "OutfitFillInTheBlankTask" /\ call.ran = <<"_cir_forward">> /\ call.result.path = "_cir_forward"

\* C2: a forward call with a tag that has no registered handler raises the
\* lookup's error (KeyError, the UnsupportedTaskError of the error taxonomy),
\* runs none of the forward paths, returns nothing, and leaves every model
\* parameter as it was.
C2_UnregisteredTaskRaises ==
  [][(pc = "idle" /\ pc' = "returned" /\ call'.task \notin Tasks) =>
       /\ call'.raised = "KeyError"
       /\ call'.ran = <<>>
       /\ call'.result = None
       /\ params' = params
       /\ training' = training]_vars

\* C2 witness: a call with the unregistered tag FashionItem has raised.
C2_Witness == pc = "returned" /\ call.task = "FashionItem" /\ call.raised = "KeyError"

\* C3: in the CP and the CIR path, for a batch of embeddings of length L and
\* a mask of length L, the sequence and the mask given to the attention stack
\* have length 1+L, mask position 0 is False for every example, positions
\* 1..L carry the caller's mask and the caller's embeddings unchanged, and the
\* state returned is the stack's output at position 0.
C3_OnePositionPrepended ==
  (pc = "returned" /\ call.ran \in {<<"_cp_forward">>, <<"_cir_forward">>}) =>
    \A b \in DOMAIN call.args.outfit_mask :
      LET L == Len(call.args.outfit_mask[b])
          r == call.result
      IN  /\ Len(GivenEmbedding(call, b)) = L
          /\ Len(r.src[b]) = 1 + L
          /\ Len(r.mask[b]) = 1 + L
          /\ r.mask[b][1] = FALSE
          /\ \A i \in 1..L : r.mask[b][i + 1] = call.args.outfit_mask[b][i]
          /\ \A i \in 1..L : r.src[b][i + 1] = GivenEmbedding(call, b)[i]
          /\ \E drop \in DropDraws(training) : r.pooled[b] = TransformerEncoder(params.transformer_encoder, drop, r.src[b], r.mask[b], n_layers)[1]

\* C3 witness: a CIR call on outfits of length 2 with a padded second item.
C3_Witness == pc = "returned" /\ call.ran = <<"_cir_forward">> /\ \E b \in DOMAIN call.result.mask : call.result.mask[b] = <<FALSE, FALSE, TRUE>> /\ Len(call.result.src[b]) = 3

\* One example with the content of every masked position replaced by v.
ErasedRow(x, mask, v) == [i \in DOMAIN x |-> IF mask[i] THEN v ELSE x[i]]

ErasedBatch(X, M, v) == IF X = None THEN None ELSE [b \in DOMAIN X |-> ErasedRow(X[b], M[b], v)]

\* The arguments of a CP or CIR call with the content of the masked (padded)
\* positions erased: the mask, the unmasked positions and the pooling vector
\* (the target text of a CIR call) are those of the call.  Two batches with
\* the same mask that agree on every unmasked position and on the pooling
\* vector have the same erased arguments.
PaddingErased(c) ==
  IF c.ran = <<"_cp_forward">>
  THEN [c.args EXCEPT !.outfit_embedding = ErasedBatch(@, c.args.outfit_mask, [emb |-> "e1"]), !.encoder_input_dict = ErasedBatch(@, c.args.outfit_mask, "r1")]
  ELSE [c.args EXCEPT !.outfit_embedding = ErasedBatch(@, c.args.outfit_mask, [emb |-> "e1"])]

\* C11: with fixed weights in evaluation mode, the state pooled at position 0
\* by the CP and the CIR path, and the head's output on it, are those of the
\* batch with the same mask, the same unmasked positions and the same pooling
\* vector whose masked positions hold one fixed content; so two batches that
\* differ only at masked positions give the same pooled output.
C11_PaddedContentIgnored ==
  (pc = "returned" /\ ~training /\ call.ran \in {<<"_cp_forward">>, <<"_cir_forward">>}) =>
    LET other == forward(params, "off", call.task, PaddingErased(call))
    IN  /\ other.args.outfit_mask = call.args.outfit_mask
        /\ other.result.mask = call.result.mask
        /\ other.result.pooled = call.result.pooled
        /\ other.result.out = call.result.out

\* C11 witness: in evaluation mode a CIR call on a two-item outfit has returned
\* whose second item is padding with a content other than the erased one.
C11_Witness == pc = "returned" /\ ~training /\ call.ran = <<"_cir_forward">> /\ call.args.outfit_mask = <<<<FALSE, TRUE>>>> /\ call.args.outfit_embedding[1][2] = [emb |-> "e2"] /\ PaddingErased(call) # call.args

\* C12 as stated: for every batch size B and outfit length L, a CIR call that
\* returns gives one vector per example whose width is the width D of the item
\* embeddings it consumed, whatever L is.
C12_CirOutputDimIsItemDim ==
  (spc = "returned" /\ shaped.raised = NoError) =>
    shaped.out = <<shaped.args.outfit_embedding[1], shaped.args.outfit_embedding[3]>>

\* C12, what the head does: a CIR call returns only on item embeddings of
\* width item_encoder.d_embed, and then gives one vector per example of width
\* cfg.d_embed, whatever L is; that is the width of the item embeddings when
\* the two configured widths are equal.
C12_CirOutputDimIsConfigured ==
  (spc = "returned" /\ shaped.raised = NoError) =>
    /\ shaped.args.outfit_embedding[3] = item_encoder_d_embed
    /\ shaped.out = <<shaped.args.outfit_embedding[1], cfg_d_embed>>
    /\ cfg_d_embed = item_encoder_d_embed => shaped.out = <<shaped.args.outfit_embedding[1], shaped.args.outfit_embedding[3]>>

\* C12 witness: a CIR call on outfits of length 8 has returned vectors whose
\* width is not the width of the item embeddings.
C12_Witness == spc = "returned" /\ shaped.raised = NoError /\ shaped.args.outfit_embedding[2] = 8 /\ shaped.out[2] # shaped.args.outfit_embedding[3]

PaddedItems(r, b) == IF r.use_precomputed_embedding THEN r.embeddings[b] ELSE [i \in DOMAIN r.images[b] |-> <<r.images[b][i], r.texts[b][i]>>]

\* What the padder is expected to hold at position i of example b: the i-th
\* item of the input while i <= n, the fill value of the element kind after.
ExpectedItem(r, b, i, n) ==
  LET it == r.sequences[b][i]
  IN  IF r.use_precomputed_embedding
      THEN (IF i <= n THEN ItemEmbedding(it) ELSE pad_emb)
      ELSE (IF i <= n THEN <<ItemImage(it), ItemCategory(it)>> ELSE <<image_pad, text_pad>>)

\* Some sequence of the batch is longer than the configured max_length.
OverLong(r) == \E b \in DOMAIN r.sequences : Len(r.sequences[b]) > cfg.max_length

\* C4: a sequence of real length k padded to target length T with k < T (T is
\* max_length under the fixed policy) gets the mask of k False then T - k
\* True, and the padded sequence is its k items in order followed by T - k
\* copies of the fill value; mask and padded sequence have the same length.
C4_MaskAndPaddingForShortSequence ==
  ppc = "returned" =>
    /\ cfg.padding = "max_length" => padded.max_length = cfg.max_length
    /\ \A b \in DOMAIN padded.sequences :
         LET k == Len(padded.sequences[b])
             T == padded.max_length
         IN  /\ Len(padded.mask[b]) = Len(PaddedItems(padded, b))
             /\ Len(padded.mask[b]) = Len(padded.embeddings[b])
             /\ k < T =>
                  /\ padded.mask[b] = [i \in 1..T |-> i > k]
                  /\ PaddedItems(padded, b) = [i \in 1..T |-> ExpectedItem(padded, b, i, k)]

\* C4 witness: under the fixed policy a one-item outfit was padded to length 2.
C4_Witness == ppc = "returned" /\ cfg.padding = "max_length" /\ cfg.max_length = 2 /\ \E b \in DOMAIN padded.sequences : Len(padded.sequences[b]) = 1 /\ padded.mask[b] = <<FALSE, TRUE>>

\* C5: with truncation enabled, a sequence longer than max_length comes out
\* with exactly max_length items, the first max_length items of the input in
\* their order, with an all-False mask, and no error is raised.
C5_TruncationKeepsLeadingItems ==
  (ppc = "returned" /\ cfg.truncation) =>
    \A b \in DOMAIN padded.sequences :
      Len(padded.sequences[b]) > cfg.max_length =>
        /\ padded.raised = NoError
        /\ Len(PaddedItems(padded, b)) = cfg.max_length
        /\ PaddedItems(padded, b) = [i \in 1..cfg.max_length |-> ExpectedItem(padded, b, i, cfg.max_length)]
        /\ padded.mask[b] = [i \in 1..cfg.max_length |-> FALSE]

\* C5 witness: truncation on, policy longest, a three-item outfit cut to two
\* items that differ from its last two.
C5_Witness == ppc = "returned" /\ cfg.truncation /\ cfg.padding = "longest" /\ cfg.max_length = 2 /\ \E b \in DOMAIN padded.sequences : padded.sequences[b] = <<"i1", "i2", "i2">> /\ Len(padded.embeddings[b]) = 2

C7_PaddedLengthAtMostMax ==
  ppc = "returned" => \A b \in DOMAIN padded.sequences : Len(padded.embeddings[b]) <= cfg.max_length

\* C7 amended: under the fixed policy, or with truncation enabled, the length
\* of the padded batch is at most max_length; under the policy longest with
\* truncation disabled it is the length of the batch's longest sequence,
\* whatever max_length is.
C7_PaddedLengthBound ==
  ppc = "returned" =>
    \A b \in DOMAIN padded.sequences :
      /\ (cfg.padding = "max_length" \/ cfg.truncation) => Len(padded.embeddings[b]) <= cfg.max_length
      /\ (cfg.padding = "longest" /\ ~cfg.truncation) => Len(padded.embeddings[b]) = Max({Len(padded.sequences[c]) : c \in DOMAIN padded.sequences})

\* C7 witness: policy longest, truncation off, a padded batch longer than
\* max_length.
C7_Witness == ppc = "returned" /\ cfg.padding = "longest" /\ ~cfg.truncation /\ \E b \in DOMAIN padded.sequences : Len(padded.embeddings[b]) > cfg.max_length

\* ------------------------------------------- claims: FillInTheBlankTrainer

Shards(r) == {f \in DOMAIN r.dir : f.stem = r.prefix /\ f.ext = "pkl"}

RECURSIVE SumOfLengths(_, _)
SumOfLengths(r, S) == IF S = {} THEN 0 ELSE LET f == CHOOSE x \in S : TRUE IN Len(r.dir[f].ids) + SumOfLengths(r, S \ {f})

\* Where the IDs of shard f start in the merged list: after the IDs of every
\* shard whose file name sorts before f's.
Offset(r, f) == SumOfLengths(r, {g \in Shards(r) : g.rank < f.rank})

\* The ID lists of the shards are pairwise disjoint.
PairwiseDisjoint(r) == \A f, g \in Shards(r) : f # g => {r.dir[f].ids[j] : j \in DOMAIN r.dir[f].ids} \cap {r.dir[g].ids[j] : j \in DOMAIN r.dir[g].ids} = {}

\* Every shard has as many IDs as embedding rows.
Parallel(r) == \A f \in Shards(r) : Len(r.dir[f].ids) = Len(r.dir[f].embeddings)

\* No shard lists an ID twice.
NoRepeatInShard(r) == \A f \in Shards(r) : \A i, j \in DOMAIN r.dir[f].ids : r.dir[f].ids[i] = r.dir[f].ids[j] => i = j

\* The merged lists hold the shards one after the other in file-name order.
MergedInFileOrder(r) ==
  /\ Len(r.all_ids) = SumOfLengths(r, Shards(r))
  /\ Len(r.all_embeddings) = SumOfLengths(r, Shards(r))
  /\ \A f \in Shards(r) : \A j \in DOMAIN r.dir[f].ids :
       /\ r.all_ids[Offset(r, f) + j] = r.dir[f].ids[j]
       /\ r.all_embeddings[Offset(r, f) + j] = r.dir[f].embeddings[j]

\* The map has one key per ID of any shard.
KeysAreAllIds(r) == DOMAIN r.map = UNION {{r.dir[f].ids[j] : j \in DOMAIN r.dir[f].ids} : f \in Shards(r)}

\* The map sends the j-th ID of each shard to the j-th row of that shard.
RowOfSameShard(r) == \A f \in Shards(r) : \A j \in DOMAIN r.dir[f].ids : r.map[r.dir[f].ids[j]] = r.dir[f].embeddings[j]

\* C9: when no file of the directory matches <prefix>*.pkl, load_embeddings
\* fails (FileNotFoundError, the MissingEmbeddingCacheError of the error
\* taxonomy): no shard is read and no map, empty or partial, is returned.
C9_NoShardsRaises ==
  (lpc = "returned" /\ Shards(loaded) = {}) =>
    /\ loaded.raised = "FileNotFoundError"
    /\ loaded.files_read = <<>>
    /\ loaded.map = None

\* C9 witness: a load failed in a directory that holds files, none of them a
\* shard of the prefix.
C9_Witness == lpc = "returned" /\ loaded.raised = "FileNotFoundError" /\ loaded.prefix = TrainerPrefix /\ DOMAIN loaded.dir = {LegacyName, TmpName}

\* C10 as stated: for shards with pairwise disjoint ID lists and as many IDs
\* as rows each, the merge is in file-name order, the map has one key per ID
\* and sends the j-th ID of each shard to the j-th row of that shard.
C10_DisjointShardsMerge ==
  (lpc = "returned" /\ Shards(loaded) # {} /\ PairwiseDisjoint(loaded) /\ Parallel(loaded)) =>
    /\ loaded.raised = NoError
    /\ MergedInFileOrder(loaded)
    /\ KeysAreAllIds(loaded)
    /\ RowOfSameShard(loaded)

\* C10 amended: the same, for shards that moreover list no ID twice.
C10_DisjointShardsWithoutRepeatsMerge ==
  (lpc = "returned" /\ Shards(loaded) # {} /\ PairwiseDisjoint(loaded) /\ Parallel(loaded) /\ NoRepeatInShard(loaded)) =>
    /\ loaded.raised = NoError
    /\ MergedInFileOrder(loaded)
    /\ KeysAreAllIds(loaded)
    /\ RowOfSameShard(loaded)
    /\ Cardinality(DOMAIN loaded.map) = Len(loaded.all_ids)

\* C10 witness: two shards with one ID each, the file of rank 1 holding "a"
\* and the file of rank 0 holding "b", were merged into a map of two keys.
C10_Witness == lpc = "returned" /\ loaded.raised = NoError /\ Cardinality(Shards(loaded)) = 2 /\ PairwiseDisjoint(loaded) /\ NoRepeatInShard(loaded) /\ loaded.all_ids = <<"b", "a">> /\ Cardinality(DOMAIN loaded.map) = 2

\* The IDs of the shards, and the shards that list a given ID.
IdsOfShards(r) == UNION {{r.dir[f].ids[j] : j \in DOMAIN r.dir[f].ids} : f \in Shards(r)}
ShardsWith(r, id) == {f \in Shards(r) : \E j \in DOMAIN r.dir[f].ids : r.dir[f].ids[j] = id}

\* The embedding row of the last occurrence of an ID in sorted-file-name
\* order: in the last of the shards that list it, the last row that carries it.
LastRow(r, id) ==
  LET f == CHOOSE x \in ShardsWith(r, id) : \A y \in ShardsWith(r, id) : y.rank <= x.rank
      j == Max({k \in DOMAIN r.dir[f].ids : r.dir[f].ids[k] = id})
  IN  r.dir[f].embeddings[j]

\* Some ID occurs more than once, in one shard or in two.
SomeIdRepeated(r) == \E id \in IdsOfShards(r) : Cardinality(ShardsWith(r, id)) > 1 \/ \E f \in ShardsWith(r, id) : Cardinality({k \in DOMAIN r.dir[f].ids : r.dir[f].ids[k] = id}) > 1

\* C14: whatever IDs the shard files repeat, across files or within one,
\* load_embeddings raises no error and returns a map with one entry per
\* distinct ID, whose value is the embedding row of the ID's last occurrence in
\* sorted-file-name order; when some ID is repeated the map has fewer entries
\* than rows were merged.
C14_RepeatedIdKeepsLastRow ==
  (lpc = "returned" /\ Shards(loaded) # {}) =>
    /\ loaded.raised = NoError
    /\ DOMAIN loaded.map = IdsOfShards(loaded)
    /\ Cardinality(DOMAIN loaded.map) = Cardinality(IdsOfShards(loaded))
    /\ \A id \in IdsOfShards(loaded) : loaded.map[id] = LastRow(loaded, id)
    /\ SomeIdRepeated(loaded) => Cardinality(DOMAIN loaded.map) < Len(loaded.all_embeddings)

\* C14 witness: the file of rank 0 lists "a" and "b", the file of rank 1 lists
\* "b" twice; the map has two entries and sends "b" to row 2 of the rank-1 file.
C14_Witness == lpc = "returned" /\ loaded.raised = NoError /\ loaded.all_ids = <<"a", "b", "b", "b">> /\ Cardinality(DOMAIN loaded.map) = 2 /\ loaded.map["b"].rank = 1 /\ loaded.map["b"].row = 2 /\ loaded.map["a"].rank = 0

====
